---------------------------- MODULE Spec2Model ----------------------------
(***************************************************************************)
(* CustomerForm.tsx and EmailForm.tsx on top of the useForm hook.          *)
(*                                                                         *)
(* A JavaScript string is a sequence of one-character strings, undefined   *)
(* is the value Undefined, and a JavaScript number is a record: NaN, or a  *)
(* finite amount held as its count of hundredths (valorTotal = cents/100). *)
(* A mapping such as `errors` is a function whose domain is its key set.   *)
(***************************************************************************)
EXTENDS Integers, Sequences, FiniteSets, TLC

VARIABLES
    form,                \* "email" or "customer": the component mounted; "validator" then
                         \* "validated": CustomerForm's validate alone, before and after its run
    initialData,         \* CustomerForm's initialData prop (Undefined when not supplied)
    values,              \* useForm: values
    errors,              \* useForm: errors
    isSubmitting,        \* useForm: isSubmitting
    searchQuery,         \* EmailForm: searchQuery
    showCustomerSearch,  \* EmailForm: showCustomerSearch
    inputText,           \* EmailForm: the text of the (uncontrolled) Valor Total input
    onSubmitCalls,       \* the invocations of the caller's onSubmit prop by the latest event
    inFlight,            \* promises returned by the caller's onSubmit and not yet settled
    uncaught             \* the latest event's handler ended by propagating an exception

vars == <<form, initialData, values, errors, isSubmitting, searchQuery,
          showCustomerSearch, inputText, onSubmitCalls, inFlight, uncaught>>

-----------------------------------------------------------------------------
(* Bounds of the model *)

\* promises of the caller's onSubmit pending at once
MaxInFlight == 2

\* digits in the text of the Valor Total input
MaxDigits == 6

\* address fields of CustomerForm that receive typed text
MaxAddr == 1

\* length of the e-mail texts given to CustomerForm's validate
MaxEmailLen == 5

\* digits of the cnpj and telefone texts given to CustomerForm's validate
MaxDigitRun == 15

-----------------------------------------------------------------------------
(* JavaScript values *)

Undefined == <<"undefined">>

\* undefined where an object is expected (initialData, endereco, newValues)
UndefinedObject == [undefined |-> TRUE]

NaN == [nan |-> TRUE, cents |-> 0]

Num(c) == [nan |-> FALSE, cents |-> c]

Truthy(s) == s # Undefined /\ s # <<>>

OrEmpty(s) == IF Truthy(s) THEN s ELSE <<>>

Digits == <<"0", "1", "2", "3", "4", "5", "6", "7", "8", "9">>

IsDigit(c) == \E i \in 1..10 : Digits[i] = c

IsSpace(c) == c \in {" ", "\t", "\n"}

StripNonDigits(s) == SelectSeq(s, IsDigit)

DigitValue(c) == (CHOOSE i \in 1..10 : Digits[i] = c) - 1

RECURSIVE DigitsToNat(_)
DigitsToNat(d) ==
    IF d = <<>> THEN 0
    ELSE 10 * DigitsToNat(SubSeq(d, 1, Len(d) - 1)) + DigitValue(d[Len(d)])

ParseInt(d) == IF d = <<>> THEN NaN ELSE Num(100 * DigitsToNat(d))

DivideBy100(x) == IF x.nan THEN NaN ELSE Num(x.cents \div 100)

LessOrEqualZero(x) == ~x.nan /\ x.cents <= 0

RECURSIVE NatToDigits(_)
NatToDigits(n) ==
    IF n < 10 THEN <<Digits[n + 1]>>
    ELSE NatToDigits(n \div 10) \o <<Digits[(n % 10) + 1]>>

RECURSIVE GroupThousands(_)
GroupThousands(d) ==
    IF Len(d) <= 3 THEN d
    ELSE GroupThousands(SubSeq(d, 1, Len(d) - 3)) \o <<".">> \o SubSeq(d, Len(d) - 2, Len(d))

UpperCase == <<"A", "B", "C", "D", "E", "F", "G", "H", "I", "J", "K", "L", "M",
               "N", "O", "P", "Q", "R", "S", "T", "U", "V", "W", "X", "Y", "Z">>

LowerCase == <<"a", "b", "c", "d", "e", "f", "g", "h", "i", "j", "k", "l", "m",
               "n", "o", "p", "q", "r", "s", "t", "u", "v", "w", "x", "y", "z">>

LowerChar(c) ==
    IF \E i \in 1..26 : UpperCase[i] = c
    THEN LowerCase[CHOOSE i \in 1..26 : UpperCase[i] = c]
    ELSE c

toLowerCase(s) == [i \in 1..Len(s) |-> LowerChar(s[i])]

includes(s, q) == \E i \in 0..(Len(s) - Len(q)) : SubSeq(s, i + 1, i + Len(q)) = q

-----------------------------------------------------------------------------
(* @/lib/utils *)

RSPrefix == <<"R", "$", " ">>

formatCurrency(x) ==
    IF x.nan THEN RSPrefix \o <<"N", "a", "N">>
    ELSE LET frac == x.cents % 100 IN
         RSPrefix \o GroupThousands(NatToDigits(x.cents \div 100))
                  \o <<",", Digits[(frac \div 10) + 1], Digits[(frac % 10) + 1]>>

formatCNPJ(d) ==
    IF Len(d) = 14
    THEN SubSeq(d, 1, 2) \o <<".">> \o SubSeq(d, 3, 5) \o <<".">> \o SubSeq(d, 6, 8)
         \o <<"/">> \o SubSeq(d, 9, 12) \o <<"-">> \o SubSeq(d, 13, 14)
    ELSE d

formatPhone(d) ==
    IF Len(d) \in {10, 11}
    THEN <<"(">> \o SubSeq(d, 1, 2) \o <<")", " ">> \o SubSeq(d, 3, Len(d) - 4)
         \o <<"-">> \o SubSeq(d, Len(d) - 3, Len(d))
    ELSE d

-----------------------------------------------------------------------------
(* The customers of the model *)

CustomerA ==
    [id |-> <<"1">>,
     razaoSocial |-> <<"A", "c", "m", "e">>,
     nomeFantasia |-> <<"A", "C">>,
     cnpj |-> <<"1", "1", ".", "2", "2", "2", ".", "3", "3", "3", "/",
                "0", "0", "0", "1", "-", "8", "1">>,
     email |-> <<"a", "@", "b", ".", "c", "o">>,
     telefone |-> <<"(", "1", "1", ")", " ", "9", "8", "7", "6", "5", "-",
                    "4", "3", "2", "1">>,
     endereco |-> [logradouro |-> <<"R">>, numero |-> <<"1">>, complemento |-> <<>>,
                   bairro |-> <<>>, cidade |-> <<>>, estado |-> <<"S", "P">>,
                   cep |-> <<"0", "1", "3", "1", "0", "1", "0", "0">>]]

CustomerB ==
    [id |-> <<"2">>,
     razaoSocial |-> <<"B", "e", "t", "a">>,
     nomeFantasia |-> <<"B", "t">>,
     cnpj |-> <<"2", "2", "3", "3", "3", "4", "4", "4", "0", "0", "0", "1", "9", "5">>,
     email |-> <<"b", "@", "c", ".", "d">>,
     telefone |-> Undefined,
     endereco |-> UndefinedObject]

Customers == {CustomerA, CustomerB}

-----------------------------------------------------------------------------
(* The state the handlers act on, as one record *)

Now ==
    [values |-> values, errors |-> errors, isSubmitting |-> isSubmitting,
     searchQuery |-> searchQuery, showCustomerSearch |-> showCustomerSearch,
     inputText |-> inputText, onSubmitCalls |-> onSubmitCalls,
     inFlight |-> inFlight, uncaught |-> uncaught]

\* the state as an event's handler starts: what the previous event reported is gone
Begin == [Now EXCEPT !.onSubmitCalls = <<>>, !.uncaught = FALSE]

Becomes(s) ==
    /\ values' = s.values
    /\ errors' = s.errors
    /\ isSubmitting' = s.isSubmitting
    /\ searchQuery' = s.searchQuery
    /\ showCustomerSearch' = s.showCustomerSearch
    /\ inputText' = s.inputText
    /\ onSubmitCalls' = s.onSubmitCalls
    /\ inFlight' = s.inFlight
    /\ uncaught' = s.uncaught

NoErrors == <<>>

-----------------------------------------------------------------------------
(* The forms' configuration of useForm *)

EmailInitialValues ==
    [razaoSocial |-> <<>>, nomeFantasia |-> <<>>, cnpj |-> <<>>, email |-> <<>>,
     telefone |-> <<>>, numeroNF |-> <<>>, valorTotal |-> Num(0)]

EmailValidate(v) ==
    (IF ~Truthy(v.razaoSocial) THEN "razaoSocial" :> "Razao Social e obrigatoria" ELSE NoErrors)
    @@ (IF ~Truthy(v.email) THEN "email" :> "E-mail e obrigatorio" ELSE NoErrors)
    @@ (IF ~Truthy(v.numeroNF) THEN "numeroNF" :> "Numero da NF e obrigatorio" ELSE NoErrors)
    @@ (IF LessOrEqualZero(v.valorTotal)
        THEN "valorTotal" :> "Valor total deve ser maior que zero" ELSE NoErrors)

CustomerInitialValues ==
    [id |-> <<>>, razaoSocial |-> <<>>, nomeFantasia |-> <<>>, cnpj |-> <<>>,
     email |-> <<>>, telefone |-> <<>>,
     endereco |-> [logradouro |-> <<>>, numero |-> <<>>, complemento |-> <<>>,
                   bairro |-> <<>>, cidade |-> <<>>, estado |-> <<>>, cep |-> <<>>]]

IsEmailChar(c) == ~IsSpace(c) /\ c # "@"

\* /^[^\s@]+@[^\s@]+\.[^\s@]+$/ as the states the matcher can be in after each
\* character: 0 start, 1 in the local part, 2 after "@", 3 in the domain,
\* 4 after the ".", 5 in the last run (accepting).
EmailRegexStep(q, c) ==
    {n \in 0..5 :
        \/ n = 1 /\ q \in {0, 1} /\ IsEmailChar(c)
        \/ n = 2 /\ q = 1 /\ c = "@"
        \/ n = 3 /\ q \in {2, 3} /\ IsEmailChar(c)
        \/ n = 4 /\ q = 3 /\ c = "."
        \/ n = 5 /\ q \in {4, 5} /\ IsEmailChar(c)}

RECURSIVE EmailRegexRun(_, _)
EmailRegexRun(qs, s) ==
    IF s = <<>> THEN qs
    ELSE EmailRegexRun(UNION {EmailRegexStep(q, Head(s)) : q \in qs}, Tail(s))

EmailRegexTest(s) == 5 \in EmailRegexRun({0}, s)

\* validate with the CNPJ test written as "fewer than 14 digits"
CustomerValidateAtLeast14(v) ==
    (IF ~Truthy(v.razaoSocial) THEN "razaoSocial" :> "Razao Social e obrigatoria" ELSE NoErrors)
    @@ (IF ~Truthy(v.nomeFantasia)
        THEN "nomeFantasia" :> "Nome Fantasia e obrigatorio" ELSE NoErrors)
    @@ (IF ~Truthy(v.cnpj) \/ Len(StripNonDigits(v.cnpj)) < 14
        THEN "cnpj" :> "CNPJ invalido" ELSE NoErrors)
    @@ (IF ~Truthy(v.email) \/ ~EmailRegexTest(v.email)
        THEN "email" :> "E-mail invalido" ELSE NoErrors)
    @@ (IF Truthy(v.telefone) /\ Len(StripNonDigits(v.telefone)) < 10
        THEN "telefone" :> "Telefone invalido" ELSE NoErrors)

CustomerValidate(v) ==
    (IF ~Truthy(v.razaoSocial) THEN "razaoSocial" :> "Razao Social e obrigatoria" ELSE NoErrors)
    @@ (IF ~Truthy(v.nomeFantasia)
        THEN "nomeFantasia" :> "Nome Fantasia e obrigatorio" ELSE NoErrors)
    @@ (IF ~Truthy(v.cnpj) \/ Len(StripNonDigits(v.cnpj)) # 14
        THEN "cnpj" :> "CNPJ invalido" ELSE NoErrors)
    @@ (IF ~Truthy(v.email) \/ ~EmailRegexTest(v.email)
        THEN "email" :> "E-mail invalido" ELSE NoErrors)
    @@ (IF Truthy(v.telefone) /\ Len(StripNonDigits(v.telefone)) < 10
        THEN "telefone" :> "Telefone invalido" ELSE NoErrors)

-----------------------------------------------------------------------------
(* @/hooks/useForm *)

HookInitialValues == IF form = "email" THEN EmailInitialValues ELSE CustomerInitialValues

\* path is the split of the dotted path: <<"cnpj">>, <<"endereco", "cep">>
handleChange(s, path, value) ==
    IF Len(path) = 1
    THEN [s EXCEPT !.values = [k \in DOMAIN s.values |->
                                 IF k = path[1] THEN value ELSE s.values[k]]]
    ELSE LET old == s.values[path[1]]
             merged == IF old = UndefinedObject THEN path[2] :> value
                       ELSE (path[2] :> value) @@ old
         IN [s EXCEPT !.values = [k \in DOMAIN s.values |->
                                    IF k = path[1] THEN merged ELSE s.values[k]]]

reset(s, newValues) ==
    [s EXCEPT !.values = IF newValues = UndefinedObject THEN HookInitialValues ELSE newValues,
              !.errors = NoErrors,
              !.isSubmitting = FALSE]

\* The caller's onSubmit prop: it returns, throws, or returns a promise that
\* settles later.
Outcomes == {"return", "throw", "promise"}

CallerOnSubmit(s, v, outcome) ==
    [s |-> [s EXCEPT !.onSubmitCalls = Append(s.onSubmitCalls,
                                               [arg |-> v, isSubmitting |-> s.isSubmitting]),
                     !.inFlight = IF outcome = "promise" THEN s.inFlight + 1 ELSE s.inFlight],
     threw |-> outcome = "throw",
     promise |-> outcome = "promise"]

\* onSubmit with the reset made before the caller is invoked with the hook's values
EmailOnSubmitResetFirst(s, v, outcome) ==
    LET s0 == reset(s, UndefinedObject)
        r == CallerOnSubmit(s0, s0.values, outcome)
    IN r

\* onSubmit without its reset()
EmailOnSubmitNoReset(s, v, outcome) ==
    LET r == CallerOnSubmit(s, v, outcome) IN
    [s |-> r.s, threw |-> r.threw, promise |-> FALSE]

EmailOnSubmit(s, v, outcome) ==
    LET r == CallerOnSubmit(s, v, outcome) IN
    IF r.threw THEN r
    ELSE [s |-> reset(r.s, UndefinedObject), threw |-> FALSE, promise |-> FALSE]

Validate(v) == IF form = "email" THEN EmailValidate(v) ELSE CustomerValidate(v)

OnSubmit(s, v, outcome) ==
    IF form = "email" THEN EmailOnSubmit(s, v, outcome) ELSE CallerOnSubmit(s, v, outcome)

\* handleSubmit that stores the errors and goes on to onSubmit all the same
handleSubmitDespiteErrors(s, outcome) ==
    LET errs == Validate(s.values)
        s1 == [s EXCEPT !.errors = errs, !.isSubmitting = TRUE]
        r == OnSubmit(s1, s1.values, outcome)
    IN IF r.promise
       THEN r.s
       ELSE [r.s EXCEPT !.isSubmitting = FALSE, !.uncaught = r.threw]

\* handleSubmit that clears isSubmitting after onSubmit, but not when it throws
handleSubmitNoFinally(s, outcome) ==
    LET errs == Validate(s.values) IN
    IF errs # NoErrors
    THEN [s EXCEPT !.errors = errs]
    ELSE LET s1 == [s EXCEPT !.errors = NoErrors, !.isSubmitting = TRUE]
             r == OnSubmit(s1, s1.values, outcome)
         IN IF r.promise
            THEN r.s
            ELSE IF r.threw THEN [r.s EXCEPT !.uncaught = TRUE]
            ELSE [r.s EXCEPT !.isSubmitting = FALSE]

handleSubmit(s, outcome) ==
    LET errs == Validate(s.values) IN
    IF errs # NoErrors
    THEN [s EXCEPT !.errors = errs]
    ELSE LET s1 == [s EXCEPT !.errors = NoErrors, !.isSubmitting = TRUE]
             r == OnSubmit(s1, s1.values, outcome)
         IN IF r.promise
            THEN r.s
            ELSE [r.s EXCEPT !.isSubmitting = FALSE, !.uncaught = r.threw]

\* the continuation of handleSubmit once the awaited promise has settled
handleSubmitSettled(s, rejected) ==
    [s EXCEPT !.isSubmitting = FALSE, !.uncaught = rejected]

-----------------------------------------------------------------------------
(* EmailForm *)

\* handleCustomerSelect without the "|| ''" of telefone
handleCustomerSelectNoDefault(s, customer) ==
    LET s1 == handleChange(s, <<"razaoSocial">>, customer.razaoSocial)
        s2 == handleChange(s1, <<"nomeFantasia">>, customer.nomeFantasia)
        s3 == handleChange(s2, <<"cnpj">>, customer.cnpj)
        s4 == handleChange(s3, <<"email">>, customer.email)
        s5 == handleChange(s4, <<"telefone">>, customer.telefone)
    IN [s5 EXCEPT !.showCustomerSearch = FALSE, !.searchQuery = <<>>]

handleCustomerSelect(s, customer) ==
    LET s1 == handleChange(s, <<"razaoSocial">>, customer.razaoSocial)
        s2 == handleChange(s1, <<"nomeFantasia">>, customer.nomeFantasia)
        s3 == handleChange(s2, <<"cnpj">>, customer.cnpj)
        s4 == handleChange(s3, <<"email">>, customer.email)
        s5 == handleChange(s4, <<"telefone">>, OrEmpty(customer.telefone))
    IN [s5 EXCEPT !.showCustomerSearch = FALSE, !.searchQuery = <<>>]

\* value.replace(/^R\$\s?/, '')
StripCurrencyPrefix(t) ==
    IF Len(t) >= 2 /\ t[1] = "R" /\ t[2] = "$"
    THEN IF Len(t) >= 3 /\ IsSpace(t[3]) THEN SubSeq(t, 4, Len(t)) ELSE SubSeq(t, 3, Len(t))
    ELSE t

ZeroText == <<"R", "$", " ", "0", ",", "0", "0">>

\* text is e.target.value as the keystroke left it
handleCurrencyInput(s, text) ==
    LET value == StripCurrencyPrefix(text) IN
    IF value = <<>>
    THEN [handleChange(s, <<"valorTotal">>, Num(0)) EXCEPT !.inputText = ZeroText]
    ELSE LET numericValue == StripNonDigits(value)
             cents == ParseInt(numericValue)
             reais == DivideBy100(cents)
         IN [handleChange(s, <<"valorTotal">>, reais) EXCEPT !.inputText = formatCurrency(reais)]

valorOnFocus(s) ==
    IF s.inputText = ZeroText THEN [s EXCEPT !.inputText = RSPrefix]
    ELSE s

filteredCustomers(q) ==
    {c \in Customers :
        /\ q # <<>>
        /\ \/ includes(toLowerCase(c.razaoSocial), toLowerCase(q))
           \/ includes(toLowerCase(c.nomeFantasia), toLowerCase(q))
           \/ includes(c.cnpj, q)}

Queries == {<<>>, <<"a", "c", "m", "e">>, <<"B", "T">>}

NumeroNFInputs == {<<>>, <<"4", "2">>}

Keys == {"1", "a"}

EmailMounted == form = "email"

SearchChange(q) ==
    /\ EmailMounted
    /\ Becomes([Begin EXCEPT !.searchQuery = q])
    /\ UNCHANGED <<form, initialData>>

SearchFocus ==
    /\ EmailMounted
    /\ Becomes([Begin EXCEPT !.showCustomerSearch = TRUE])
    /\ UNCHANGED <<form, initialData>>

CustomerSelect(c) ==
    /\ EmailMounted
    /\ showCustomerSearch
    /\ c \in filteredCustomers(searchQuery)
    /\ Becomes(handleCustomerSelect(Begin, c))
    /\ UNCHANGED <<form, initialData>>

NumeroNFChange(v) ==
    /\ EmailMounted
    /\ Becomes(handleChange(Begin, <<"numeroNF">>, v))
    /\ UNCHANGED <<form, initialData>>

\* a keystroke in the Valor Total input: a character typed at the end of the
\* text, the last character deleted, or the whole text deleted
Keystrokes ==
    {inputText \o <<k>> : k \in Keys}
    \cup (IF inputText # <<>> THEN {SubSeq(inputText, 1, Len(inputText) - 1)} ELSE {})
    \cup {<<>>}

CurrencyInput(text) ==
    /\ EmailMounted
    /\ text # inputText
    /\ Len(StripNonDigits(text)) <= MaxDigits
    /\ Becomes(handleCurrencyInput(Begin, text))
    /\ UNCHANGED <<form, initialData>>

ValorFocus ==
    /\ EmailMounted
    /\ Becomes(valorOnFocus(Begin))
    /\ UNCHANGED <<form, initialData>>

\* the submit control is disabled while isSubmitting
EmailSubmit(outcome) ==
    /\ EmailMounted
    /\ ~isSubmitting
    /\ outcome = "promise" => inFlight < MaxInFlight
    /\ Becomes(handleSubmit(Begin, outcome))
    /\ UNCHANGED <<form, initialData>>

\* a promise of the caller's settles; nothing of EmailForm awaits it
EmailPromiseSettles ==
    /\ EmailMounted
    /\ inFlight > 0
    /\ Becomes([Begin EXCEPT !.inFlight = inFlight - 1])
    /\ UNCHANGED <<form, initialData>>

-----------------------------------------------------------------------------
(* CustomerForm *)

useEffectInitialData(s, data) ==
    IF data # UndefinedObject THEN reset(s, data) ELSE s

handleCNPJChange(s, text) ==
    LET value == StripNonDigits(text) IN handleChange(s, <<"cnpj">>, formatCNPJ(value))

\* handlePhoneChange storing under handleCNPJChange's path
handlePhoneChangeIntoCnpj(s, text) ==
    LET value == StripNonDigits(text) IN handleChange(s, <<"cnpj">>, formatPhone(value))

handlePhoneChange(s, text) ==
    LET value == StripNonDigits(text) IN handleChange(s, <<"telefone">>, formatPhone(value))

TextFields == {"razaoSocial", "nomeFantasia", "email"}

TextInputs(k) ==
    IF k = "email" THEN {<<"n", "o">>, <<"a", "@", "b", ".", "c", "o">>}
    ELSE {<<"A", "c", "m", "e">>}

CnpjInputs == {<<"1", "1", "1">>,
               <<"1", "1", ".", "2", "2", "2", ".", "3", "3", "3", "/",
                 "0", "0", "0", "1", "-", "8", "1">>}

PhoneInputs == {<<"1", "1", "9">>,
                <<"1", "1", "9", "8", "7", "6", "5", "4", "3", "2", "1">>}

AddressKeys == {"logradouro", "numero", "complemento", "bairro", "cidade", "estado", "cep"}

AddressText == <<"9">>

TypedAddressFields(v) ==
    IF v.endereco = UndefinedObject THEN {}
    ELSE {k \in DOMAIN v.endereco : v.endereco[k] = AddressText}

CustomerMounted == form = "customer"

InitialDatas == {UndefinedObject, CustomerB}

FieldChange(k, v) ==
    /\ CustomerMounted
    /\ Becomes(handleChange(Begin, <<k>>, v))
    /\ UNCHANGED <<form, initialData>>

CNPJChange(text) ==
    /\ CustomerMounted
    /\ Becomes(handleCNPJChange(Begin, text))
    /\ UNCHANGED <<form, initialData>>

PhoneChange(text) ==
    /\ CustomerMounted
    /\ Becomes(handlePhoneChange(Begin, text))
    /\ UNCHANGED <<form, initialData>>

\* at most MaxAddr address fields receive typed text
AddressChange(k) ==
    /\ CustomerMounted
    /\ LET s == handleChange(Begin, <<"endereco", k>>, AddressText) IN
       /\ Cardinality(TypedAddressFields(s.values)) <= MaxAddr
       /\ Becomes(s)
    /\ UNCHANGED <<form, initialData>>

\* the form's own submit button: rendered without initialData, disabled while
\* isSubmitting
CustomerSubmit(outcome) ==
    /\ CustomerMounted
    /\ initialData = UndefinedObject
    /\ ~isSubmitting
    /\ outcome = "promise" => inFlight < MaxInFlight
    /\ Becomes(handleSubmit(Begin, outcome))
    /\ UNCHANGED <<form, initialData>>

\* with initialData the form has no button of its own: the submit event comes
\* from a control outside the component, through the form's id
CustomerSubmitById(outcome) ==
    /\ CustomerMounted
    /\ initialData # UndefinedObject
    /\ outcome = "promise" => inFlight < MaxInFlight
    /\ Becomes(handleSubmit(Begin, outcome))
    /\ UNCHANGED <<form, initialData>>

\* the promise handleSubmit awaits settles
CustomerPromiseSettles(rejected) ==
    /\ CustomerMounted
    /\ inFlight > 0
    /\ Becomes(handleSubmitSettled([Begin EXCEPT !.inFlight = inFlight - 1], rejected))
    /\ UNCHANGED <<form, initialData>>

InitialDataChanges(data) ==
    /\ CustomerMounted
    /\ data # initialData
    /\ initialData' = data
    /\ Becomes(useEffectInitialData(Begin, data))
    /\ UNCHANGED form

-----------------------------------------------------------------------------
(* The forms as mounted *)

Mounted(f, data) ==
    [values |-> IF f = "email" THEN EmailInitialValues
                ELSE IF data # UndefinedObject THEN data ELSE CustomerInitialValues,
     errors |-> NoErrors, isSubmitting |-> FALSE,
     searchQuery |-> <<>>, showCustomerSearch |-> FALSE,
     inputText |-> ZeroText, onSubmitCalls |-> <<>>,
     inFlight |-> 0, uncaught |-> FALSE]

Init ==
    /\ form \in {"email", "customer"}
    /\ initialData \in (IF form = "customer" THEN InitialDatas ELSE {UndefinedObject})
    /\ values = Mounted(form, initialData).values
    /\ errors = NoErrors
    /\ isSubmitting = FALSE
    /\ searchQuery = <<>>
    /\ showCustomerSearch = FALSE
    /\ inputText = ZeroText
    /\ onSubmitCalls = <<>>
    /\ inFlight = 0
    /\ uncaught = FALSE

Next ==
    \/ \E q \in Queries : SearchChange(q)
    \/ SearchFocus
    \/ \E c \in Customers : CustomerSelect(c)
    \/ \E v \in NumeroNFInputs : NumeroNFChange(v)
    \/ \E text \in Keystrokes : CurrencyInput(text)
    \/ ValorFocus
    \/ \E outcome \in Outcomes : EmailSubmit(outcome)
    \/ EmailPromiseSettles
    \/ \E k \in TextFields : \E v \in TextInputs(k) : FieldChange(k, v)
    \/ \E text \in CnpjInputs : CNPJChange(text)
    \/ \E text \in PhoneInputs : PhoneChange(text)
    \/ \E k \in AddressKeys : AddressChange(k)
    \/ \E outcome \in Outcomes : CustomerSubmit(outcome)
    \/ \E outcome \in Outcomes : CustomerSubmitById(outcome)
    \/ \E rejected \in BOOLEAN : CustomerPromiseSettles(rejected)
    \/ \E data \in InitialDatas : InitialDataChanges(data)

Spec == Init /\ [][Next]_vars

-----------------------------------------------------------------------------
(* CustomerForm's validate on its own, over texts built up to the bounds *)

EmailAlphabet == {"a", "@", ".", " "}

EmailTexts == UNION {[1..n -> EmailAlphabet] : n \in 0..MaxEmailLen}

DigitRuns == {[i \in 1..n |-> "1"] : n \in 0..MaxDigitRun}

CnpjTexts == DigitRuns \cup {formatCNPJ(d) : d \in DigitRuns} \cup {<<"x">> \o d : d \in DigitRuns}

PhoneTexts ==
    DigitRuns \cup {formatPhone(d) : d \in DigitRuns} \cup {<<"x">> \o d : d \in DigitRuns}
    \cup {Undefined}

NameTexts == {<<>>, <<"A">>}

\* every record that differs from one of the customers, or from the initial
\* values, in one validated field, and every combination of a few texts
ValidatorInputs ==
    LET bases == {CustomerA, CustomerB, CustomerInitialValues}
        few == [razaoSocial : NameTexts, nomeFantasia : NameTexts,
                cnpj : {CustomerA.cnpj, <<"1", "1", "1">>},
                email : {CustomerA.email, <<"a", "@", "b">>},
                telefone : {<<>>, Undefined, CustomerA.telefone, <<"1", "1", "9">>},
                id : {<<>>, <<"1">>},
                endereco : {CustomerA.endereco, UndefinedObject}]
    IN {[b EXCEPT !.razaoSocial = x] : b \in bases, x \in NameTexts}
       \cup {[b EXCEPT !.nomeFantasia = x] : b \in bases, x \in NameTexts}
       \cup {[b EXCEPT !.cnpj = x] : b \in bases, x \in CnpjTexts}
       \cup {[b EXCEPT !.email = x] : b \in bases, x \in EmailTexts}
       \cup {[b EXCEPT !.telefone = x] : b \in bases, x \in PhoneTexts}
       \cup few

ValidatorInit ==
    /\ form = "validator"
    /\ initialData = UndefinedObject
    /\ values \in ValidatorInputs
    /\ errors = NoErrors
    /\ isSubmitting = FALSE
    /\ searchQuery = <<>>
    /\ showCustomerSearch = FALSE
    /\ inputText = ZeroText
    /\ onSubmitCalls = <<>>
    /\ inFlight = 0
    /\ uncaught = FALSE

\* validate(values) is applied, once, and its result kept in errors
ValidatorRun ==
    /\ form = "validator"
    /\ form' = "validated"
    /\ errors' = CustomerValidate(values)
    /\ UNCHANGED <<initialData, values, isSubmitting, searchQuery, showCustomerSearch,
                   inputText, onSubmitCalls, inFlight, uncaught>>

ValidatorNext == ValidatorRun

ValidatorSpec == ValidatorInit /\ [][ValidatorNext]_vars

-----------------------------------------------------------------------------
(* The claims *)

\* the keys of an errors mapping
ErrorKeys(e) == IF e = NoErrors THEN {} ELSE DOMAIN e

SubmitStep ==
    \E outcome \in Outcomes :
        EmailSubmit(outcome) \/ CustomerSubmit(outcome) \/ CustomerSubmitById(outcome)

\* C1: in both forms, from every reachable state whose validation mapping is
\* not empty, handleSubmit stores exactly that mapping as errors and does
\* nothing else: onSubmit is not invoked, no exception is raised, values (and
\* the promises in flight) stay as they were.
C1_RejectedSubmit ==
    (form \in {"email", "customer"} /\ Validate(values) # NoErrors)
        => \A outcome \in Outcomes :
              LET r == handleSubmit(Begin, outcome) IN
              /\ r.errors = Validate(values)
              /\ r.onSubmitCalls = <<>>
              /\ ~r.uncaught
              /\ r.values = values
              /\ r = [Begin EXCEPT !.errors = Validate(values)]

C1_Witness ==
    /\ form = "customer"
    /\ errors # NoErrors
    /\ errors = Validate(values)
    /\ onSubmitCalls = <<>>

\* C2: from every reachable state a handleSubmit invokes the caller's onSubmit
\* exactly once when the validation mapping is empty, with the values of that
\* moment as the argument, and not at all when it is not; no event other than
\* such a handleSubmit invokes it.
C2_OneCallPerValidSubmit ==
    /\ [](form \in {"email", "customer"}
            => \A outcome \in Outcomes :
                  LET r == handleSubmit(Begin, outcome) IN
                  IF Validate(values) = NoErrors
                  THEN Len(r.onSubmitCalls) = 1 /\ r.onSubmitCalls[1].arg = values
                  ELSE r.onSubmitCalls = <<>>)
    /\ [][onSubmitCalls' # <<>>
            => /\ Len(onSubmitCalls') = 1
               /\ onSubmitCalls'[1].arg = values
               /\ Validate(values) = NoErrors
               /\ SubmitStep]_vars

C2_Witness ==
    /\ form = "email"
    /\ Len(onSubmitCalls) = 1
    /\ onSubmitCalls[1].arg.valorTotal = Num(111)
    /\ values = EmailInitialValues

\* C3: in EmailForm every invocation of the caller's onSubmit carries non-empty
\* razaoSocial, email and numeroNF and a valorTotal that is a number greater
\* than zero.
C3_SubmittedAmountPositive ==
    form = "email" =>
        \A i \in DOMAIN onSubmitCalls :
            LET arg == onSubmitCalls[i].arg IN
            /\ arg.razaoSocial # <<>>
            /\ arg.email # <<>>
            /\ arg.numeroNF # <<>>
            /\ ~arg.valorTotal.nan
            /\ arg.valorTotal.cents > 0

\* C4: onSubmit is invoked with isSubmitting already true, isSubmitting is
\* false after every settlement of a promise of onSubmit, and it is false
\* whenever no submission is under way, whether onSubmit returned or threw.
C4_SubmittingCleared ==
    /\ [](/\ \A i \in DOMAIN onSubmitCalls : onSubmitCalls[i].isSubmitting
          /\ inFlight = 0 => ~isSubmitting)
    /\ [][inFlight' < inFlight => ~isSubmitting']_vars

C4_Witness ==
    /\ form = "customer"
    /\ uncaught
    /\ Len(onSubmitCalls) = 1
    /\ onSubmitCalls[1].isSubmitting
    /\ ~isSubmitting

\* C5: in both forms at most one invocation of the caller's onSubmit is in
\* flight at any time.
C5_AtMostOneInFlight == inFlight <= 1

\* C6: from every reachable state reset() leaves values equal to the initial
\* values the hook was created with, also after a reset(newValues), and
\* reset(newValues) leaves values equal to newValues, both with errors empty
\* and isSubmitting false; after a submission of EmailForm that onSubmit
\* returned from, the form is in the state reset() leaves.
C6_InitialOf == IF form = "email" THEN EmailInitialValues ELSE CustomerInitialValues

C6_Reset ==
    /\ LET r == reset(Now, UndefinedObject) IN
       r.values = C6_InitialOf /\ r.errors = NoErrors /\ ~r.isSubmitting
    /\ \A nv \in Customers :
          LET r == reset(Now, nv)
              rr == reset(r, UndefinedObject)
          IN /\ r.values = nv /\ r.errors = NoErrors /\ ~r.isSubmitting
             /\ rr.values = C6_InitialOf /\ rr.errors = NoErrors /\ ~rr.isSubmitting
    /\ (form = "email" /\ onSubmitCalls # <<>> /\ ~uncaught)
          => values = EmailInitialValues /\ errors = NoErrors /\ ~isSubmitting

C6_Witness ==
    /\ form = "email"
    /\ Len(onSubmitCalls) = 1
    /\ ~uncaught
    /\ onSubmitCalls[1].arg.numeroNF # <<>>
    /\ values.numeroNF = <<>>

\* C7: a handleChange(path, value) sets the value at path and nothing else:
\* every other top-level field, every other sub-key of the nested object,
\* errors and isSubmitting stay; errors changes only to the mapping of a
\* submit-time validation pass or to the empty mapping.
ChangeFrame(s, r, path, value) ==
    /\ r.errors = s.errors
    /\ r.isSubmitting = s.isSubmitting
    /\ DOMAIN r.values = DOMAIN s.values
    /\ \A k \in DOMAIN s.values \ {path[1]} : r.values[k] = s.values[k]
    /\ IF Len(path) = 1
       THEN r.values[path[1]] = value
       ELSE LET old == s.values[path[1]]
                new == r.values[path[1]]
                oldKeys == IF old = UndefinedObject THEN {} ELSE DOMAIN old
            IN /\ DOMAIN new = oldKeys \cup {path[2]}
               /\ new[path[2]] = value
               /\ \A k \in oldKeys \ {path[2]} : new[k] = old[k]

C7_ChangeFrame ==
    /\ [](/\ form = "customer"
             => /\ \A k \in TextFields : \A v \in TextInputs(k) :
                      ChangeFrame(Begin, handleChange(Begin, <<k>>, v), <<k>>, v)
                /\ \A text \in CnpjInputs :
                      ChangeFrame(Begin, handleCNPJChange(Begin, text), <<"cnpj">>,
                                  formatCNPJ(StripNonDigits(text)))
                /\ \A text \in PhoneInputs :
                      ChangeFrame(Begin, handlePhoneChange(Begin, text), <<"telefone">>,
                                  formatPhone(StripNonDigits(text)))
                /\ \A k \in AddressKeys :
                      ChangeFrame(Begin, handleChange(Begin, <<"endereco", k>>, AddressText),
                                  <<"endereco", k>>, AddressText)
          /\ form = "email"
             => \A v \in NumeroNFInputs :
                   ChangeFrame(Begin, handleChange(Begin, <<"numeroNF">>, v), <<"numeroNF">>, v))
    /\ [][errors' # errors
            => \/ errors' = NoErrors
               \/ errors' = Validate(values) /\ SubmitStep]_vars

C7_Witness ==
    /\ form = "customer"
    /\ initialData = UndefinedObject
    /\ values.endereco # UndefinedObject
    /\ DOMAIN values.endereco = AddressKeys
    /\ values.endereco.cep = AddressText
    /\ values.endereco.logradouro = <<>>
    /\ values.telefone = formatPhone(<<"1", "1", "9", "8", "7", "6", "5", "4", "3", "2", "1">>)
    /\ "cnpj" \in ErrorKeys(errors)
    /\ values.cnpj = CustomerA.cnpj

\* C8: selecting a customer in EmailForm leaves razaoSocial, nomeFantasia, cnpj
\* and email equal to the customer's and telefone equal to the customer's or
\* empty when absent, leaves numeroNF, valorTotal, errors and isSubmitting as
\* they were, closes the search panel and empties the query.
C8_CustomerSelect ==
    [][\A c \in Customers :
          CustomerSelect(c)
            => /\ values'.razaoSocial = c.razaoSocial
               /\ values'.nomeFantasia = c.nomeFantasia
               /\ values'.cnpj = c.cnpj
               /\ values'.email = c.email
               /\ values'.telefone = (IF c.telefone = Undefined THEN <<>> ELSE c.telefone)
               /\ values'.numeroNF = values.numeroNF
               /\ values'.valorTotal = values.valorTotal
               /\ DOMAIN values' = DOMAIN values
               /\ errors' = errors
               /\ isSubmitting' = isSubmitting
               /\ ~showCustomerSearch'
               /\ searchQuery' = <<>>]_vars

C8_Witness ==
    /\ form = "email"
    /\ values.razaoSocial = CustomerB.razaoSocial
    /\ values.email = CustomerB.email
    /\ values.telefone = <<>>
    /\ values.numeroNF # <<>>
    /\ "razaoSocial" \in ErrorKeys(errors)
    /\ ~showCustomerSearch
    /\ searchQuery = <<>>

\* C9: CustomerForm's validate returns the empty mapping exactly when
\* razaoSocial and nomeFantasia are non-empty, cnpj has exactly 14 digits, email
\* has the shape local@domain.tld, and telefone is empty or has at least 10
\* digits; each failing condition gives an error under its own key and no other,
\* and neither id nor the address changes the result.
EmailShape(s) ==
    \E i \in 1..Len(s) : \E j \in 1..Len(s) :
        /\ 1 < i /\ i + 1 < j /\ j < Len(s)
        /\ s[i] = "@"
        /\ s[j] = "."
        /\ \A k \in (1..Len(s)) \ {i} : s[k] # "@" /\ ~IsSpace(s[k])

C9_Failing(v) ==
    {k \in {"razaoSocial", "nomeFantasia", "cnpj", "email", "telefone"} :
        \/ k = "razaoSocial" /\ v.razaoSocial = <<>>
        \/ k = "nomeFantasia" /\ v.nomeFantasia = <<>>
        \/ k = "cnpj" /\ Len(StripNonDigits(v.cnpj)) # 14
        \/ k = "email" /\ ~EmailShape(v.email)
        \/ k = "telefone" /\ v.telefone \notin {<<>>, Undefined}
                          /\ Len(StripNonDigits(v.telefone)) < 10}

C9_CustomerValidate ==
    form = "validated" =>
        /\ (errors = NoErrors) <=> (C9_Failing(values) = {})
        /\ ErrorKeys(errors) = C9_Failing(values)
        /\ \A i \in {<<>>, <<"7">>} : \A e \in {UndefinedObject, CustomerA.endereco} :
              CustomerValidate([values EXCEPT !.id = i, !.endereco = e]) = errors

C9_Witness ==
    /\ form = "validated"
    /\ errors = NoErrors
    /\ values.cnpj = CustomerA.cnpj
    /\ values.telefone = Undefined

\* C10: in EmailForm the text of the Valor Total input is the currency
\* formatting of values.valorTotal, or the bare prefix when valorTotal is 0.
C10_InputShowsAmount ==
    form = "email" =>
        \/ inputText = formatCurrency(values.valorTotal)
        \/ values.valorTotal = Num(0) /\ inputText = RSPrefix

=============================================================================
